---- MODULE Spec2Model ----
(***************************************************************************)
(* Model of the metrograph-watchlist matching-and-reconciliation pipeline: *)
(* title normalisation (cleanTitle), film merge (dedupeFilms), the file    *)
(* store (UpdateFileStore / writeToFile / main) and the downstream passes  *)
(* (ProcessJSONToRadarr, SyncCollectionsFromJSON,                          *)
(* CreateCollectionsFromJSON).  Strings are real strings: Len, SubSeq and  *)
(* \o act on them as Go's len, slicing and concatenation do.               *)
(***************************************************************************)
EXTENDS Integers, Sequences, FiniteSets, TLC

(***************************************************************************)
(* Bounds of the model.                                                    *)
(***************************************************************************)
\* longest title, counted in tokens of TitleTokens
MaxTitleTokens == 5
\* longest film list handed to dedupeFilms
MaxFilms == 2
\* longest film list of a series of the snapshot the downstream passes read
MaxSnapshotFilms == 3
\* most collections the collection service holds at the start
MaxCollections == 3
\* most passes (ProcessJSONToRadarr, CreateCollectionsFromJSON) run in a row
MaxRuns == 2
\* most calls to a service that fail in a behaviour of the creation passes
MaxFailures == 1
\* calls made on the Radarr client in one run of the client specification
MaxCalls == 2
MaxCallers == 2

(***************************************************************************)
(* String helpers (Go: strings.TrimSpace, regexp \s, (?i)).                *)
(***************************************************************************)
Char(s, i) == SubSeq(s, i, i)

Rest(s, i) == SubSeq(s, i, Len(s))

\* \s of the regexp package and the ASCII part of unicode.IsSpace
IsSpace(c) == c \in {" ", "\t", "\n", "\r", "\f"}

LowerOf(c) ==
    LET up == "ABCDEFGHIJKLMNOPQRSTUVWXYZ"
        lo == "abcdefghijklmnopqrstuvwxyz"
        hit == {i \in 1..26 : Char(up, i) = c}
    IN  IF hit = {} THEN c ELSE Char(lo, CHOOSE i \in hit : TRUE)

RECURSIVE ToLower(_)
ToLower(s) == IF s = "" THEN "" ELSE LowerOf(Char(s, 1)) \o ToLower(Rest(s, 2))

RECURSIVE TrimLeft(_)
TrimLeft(s) == IF s # "" /\ IsSpace(Char(s, 1)) THEN TrimLeft(Rest(s, 2)) ELSE s

RECURSIVE TrimRight(_)
TrimRight(s) ==
    IF s # "" /\ IsSpace(Char(s, Len(s))) THEN TrimRight(SubSeq(s, 1, Len(s) - 1)) ELSE s

TrimSpace(s) == TrimRight(TrimLeft(s))

(***************************************************************************)
(* cleanTitle.                                                             *)
(***************************************************************************)
\* re.ReplaceAllString(s, "") for re = \[[^\]]*\] : every leftmost match, from a
\* "[" to the first "]" after it, is removed.
RECURSIVE ReplaceBrackets(_)
ReplaceBrackets(s) ==
    IF s = "" THEN ""
    ELSE LET close == {j \in 2..Len(s) : Char(s, j) = "]"}
         IN  IF Char(s, 1) = "[" /\ close # {}
             THEN ReplaceBrackets(Rest(s, (CHOOSE j \in close : \A k \in close : j <= k) + 1))
             ELSE Char(s, 1) \o ReplaceBrackets(Rest(s, 2))

\* presentsRe.ReplaceAllString(s, "") for presentsRe = (?i)^.*presents:\s* :
\* anchored at the start, "." matches no newline, ".*" is greedy (the last
\* "presents:" of the first line wins), then the white space after it.
ReplacePresents(s) ==
    LET starts == {k \in 1..(Len(s) - 8) :
                      /\ ToLower(SubSeq(s, k, k + 8)) = "presents:"
                      /\ \A i \in 1..(k - 1) : Char(s, i) # "\n"}
    IN  IF starts = {} THEN s
        ELSE LET k == CHOOSE x \in starts : \A y \in starts : y <= x
             IN  TrimLeft(Rest(s, k + 9))

cleanTitle(title) ==
    LET withoutBrackets == TrimSpace(ReplaceBrackets(title))
        withoutPresents == TrimSpace(ReplacePresents(title))
        withoutBoth     == TrimSpace(ReplacePresents(withoutBrackets))
        v1 == <<title>>
        v2 == IF withoutBrackets # title /\ withoutBrackets # ""
              THEN Append(v1, withoutBrackets) ELSE v1
        v3 == IF withoutPresents # title /\ withoutPresents # ""
              THEN Append(v2, withoutPresents) ELSE v2
    IN  IF /\ withoutBoth # title
           /\ withoutBoth # withoutBrackets
           /\ withoutBoth # withoutPresents
           /\ withoutBoth # ""
        THEN Append(v3, withoutBoth) ELSE v3

(***************************************************************************)
(* The titles the title specification draws from: concatenations of at     *)
(* most MaxTitleTokens tokens.                                             *)
(***************************************************************************)
TitleTokens == {"a", " ", "[", "]", "Presents:"}

RECURSIVE TitlesUpTo(_)
TitlesUpTo(n) ==
    IF n = 0 THEN {""}
    ELSE LET shorter == TitlesUpTo(n - 1)
         IN  shorter \cup {t \o k : t \in shorter, k \in TitleTokens}

(***************************************************************************)
(* Films, series and catalogs (type Film, type Series, map[string]Series). *)
(* A film is its Title and TMDBID; Director, Year and IMDBID are carried   *)
(* along unread by every operation modelled here.                          *)
(***************************************************************************)
FilmTitles == {"A", "B"}

TMDBIDs == {0, 11, 22}

Films == [Title : FilmTitles, TMDBID : TMDBIDs]

RECURSIVE SeqsUpTo(_, _)
SeqsUpTo(S, n) ==
    IF n = 0 THEN {<<>>}
    ELSE LET shorter == SeqsUpTo(S, n - 1)
         IN  shorter \cup {Append(q, x) : q \in shorter, x \in S}

TitlesOf(films) == {films[i].Title : i \in DOMAIN films}

\* the validMovies counter of writeToFile, main and the three passes
validMovies(movies) == Cardinality({i \in DOMAIN movies : movies[i].TMDBID > 0})

(***************************************************************************)
(* dedupeFilms.                                                            *)
(***************************************************************************)
\* a merge that also records the titles it appends from colB
dedupeFilmsMarkingNew(colA, colB) ==
    LET keep(i) == /\ colB[i].Title \notin TitlesOf(colA)
                   /\ \A j \in 1..(i - 1) : colB[j].Title # colB[i].Title
        RECURSIVE go(_)
        go(i) == IF i > Len(colB) THEN <<>>
                 ELSE (IF keep(i) THEN <<colB[i]>> ELSE <<>>) \o go(i + 1)
    IN  colA \o go(1)

\* a merge that forgets the membership test
dedupeFilmsAppendAll(colA, colB) == colA \o colB

\* a merge in which the fresh film replaces the stored film of the same title
dedupeFilmsPreferNew(colA, colB) ==
    LET fresh(t) == colB[CHOOSE i \in DOMAIN colB : colB[i].Title = t]
    IN  [i \in DOMAIN colA |->
            IF colA[i].Title \in TitlesOf(colB) THEN fresh(colA[i].Title) ELSE colA[i]]
        \o SelectSeq(colB, LAMBDA f : f.Title \notin TitlesOf(colA))

dedupeFilms(colA, colB) ==
    colA \o SelectSeq(colB, LAMBDA f : f.Title \notin TitlesOf(colA))

(***************************************************************************)
(* UpdateFileStore, writeToFile and the filter of main.                    *)
(***************************************************************************)
SeriesIDs == {"1", "2"}

\* the loop of UpdateFileStore without the merge: the scrape replaces the store
MergeIntoStoreNoMerge(scrapped, file) == scrapped

\* the loop of UpdateFileStore: every scraped series that the loaded file holds
\* under the same id gets dedupeFilms(stored, scraped) as its Movies
MergeIntoStore(scrapped, file) ==
    [id \in DOMAIN scrapped |->
        IF id \in DOMAIN file
        THEN [scrapped[id] EXCEPT !.Movies = dedupeFilms(file[id].Movies, scrapped[id].Movies)]
        ELSE scrapped[id]]

\* a filter that keeps a series from two valid movies on
filteredResultsFromTwo(series) ==
    [id \in {i \in DOMAIN series : validMovies(series[i].Movies) >= 2} |-> series[id]]

\* filteredResults of writeToFile and of main: the series with more than 2
\* valid movies
filteredResults(series) ==
    [id \in {i \in DOMAIN series : validMovies(series[i].Movies) > 2} |-> series[id]]

(***************************************************************************)
(* Naming and the tests of SyncCollectionsFromJSON.                        *)
(***************************************************************************)
\* fmt.Sprintf("Metrograph: %s", series.Name)
collectionName(series) == "Metrograph: " \o series.Name

\* fmt.Sprintf("metrograph-%s", seriesID)
tagName(seriesID) == "metrograph-" \o seriesID

\* a name test that lets every collection through
IsMetrographCollectionAny(name) == TRUE

\* len(collection.Name) > 12 && collection.Name[:12] == "Metrograph: "
IsMetrographCollection(name) == Len(name) > 12 /\ SubSeq(name, 1, 12) = "Metrograph: "

\* a subtype test that takes no subtype for a tag label
IsMetrographTagNever(subtype) == FALSE

\* collection.Subtype != "" && len(collection.Subtype) > 11 &&
\* collection.Subtype[:11] == "metrograph-"
IsMetrographTag(subtype) ==
    subtype # "" /\ Len(subtype) > 11 /\ SubSeq(subtype, 1, 11) = "metrograph-"

\* expectedNames of SyncCollectionsFromJSON: the names of the series with
\* validMovies >= 2
ExpectedNames(catalog) ==
    {collectionName(catalog[id]) :
        id \in {i \in DOMAIN catalog : validMovies(catalog[i].Movies) >= 2}}

(***************************************************************************)
(* The tagging service (Radarr) as the client sees it.                     *)
(***************************************************************************)
\* a lookup that returns the first listed tag whatever its label
GetTagIDByNameAnyLabel(tagSet, label) ==
    IF tagSet = {} THEN 0 ELSE CHOOSE i \in {t.ID : t \in tagSet} : \A t \in tagSet : i <= t.ID

\* GetTagIDByName: the id of the first listed tag with that label, 0 for the
\* "not found" error
GetTagIDByName(tagSet, label) ==
    LET ids == {t.ID : t \in {u \in tagSet : u.Label = label}}
    IN  IF ids = {} THEN 0 ELSE CHOOSE i \in ids : \A j \in ids : i <= j

\* DeleteTag: look the label up, then delete by id; "ok" is the call's fate when
\* the service answers, "list" a failed GetTags, "delete" a failed delete
DeleteTag(tagSet, label, fate) ==
    LET id == GetTagIDByName(tagSet, label)
    IN  IF fate = "ok" /\ id # 0 THEN {t \in tagSet : t.ID # id} ELSE tagSet

\* DeleteCollection(collection.ID) on the collection service
DeleteCollection(colls, id, ok) ==
    IF ok THEN SelectSeq(colls, LAMBDA c : c.ID # id) ELSE colls

\* a CreateTag that adds the tag without looking for its label
CreateTagAlways(tagSet, label, fate, newID) ==
    IF fate # "ok" THEN [tags |-> tagSet, id |-> 0, err |-> TRUE]
    ELSE [tags |-> tagSet \cup {[ID |-> newID, Label |-> label]}, id |-> newID, err |-> FALSE]

\* CreateTag: the id of the listed tag with that label, else a tag added under
\* newID; fate "list" is a failed GetTags, "add" a failed AddTag.  The result
\* is the tag set, the id and whether an error is returned.
CreateTag(tagSet, label, fate, newID) ==
    IF fate = "list" THEN [tags |-> tagSet, id |-> 0, err |-> TRUE]
    ELSE IF GetTagIDByName(tagSet, label) # 0
         THEN [tags |-> tagSet, id |-> GetTagIDByName(tagSet, label), err |-> FALSE]
         ELSE IF fate = "add" THEN [tags |-> tagSet, id |-> 0, err |-> TRUE]
              ELSE [tags |-> tagSet \cup {[ID |-> newID, Label |-> label]},
                    id |-> newID, err |-> FALSE]

\* AddMovie on the library (TMDB id -> tag ids): a new movie is added with
\* tagIDs; for a movie that is there already the missing tag ids are appended
\* and UpdateMovieTags is called only if one was missing.  failed: a call to
\* the service on the way failed and the library stays as it was.
AddMovie(library, tmdbID, tagIDs, failed) ==
    IF failed THEN library
    ELSE IF tmdbID \notin DOMAIN library THEN (tmdbID :> tagIDs) @@ library
         ELSE LET has == {library[tmdbID][i] : i \in DOMAIN library[tmdbID]}
                  updatedTags == library[tmdbID] \o SelectSeq(tagIDs, LAMBDA t : t \notin has)
              IN  [library EXCEPT ![tmdbID] = updatedTags]

\* the loop "Add each movie with the tag" of ProcessJSONToRadarr, from film i
\* on; failing holds the positions whose AddMovie fails
RECURSIVE AddMovies(_, _, _, _, _)
AddMovies(library, films, i, tagID, failing) ==
    IF i > Len(films) THEN library
    ELSE AddMovies(IF films[i].TMDBID > 0
                   THEN AddMovie(library, films[i].TMDBID, <<tagID>>, i \in failing)
                   ELSE library,
                   films, i + 1, tagID, failing)

\* containsAny(s, substrs): some member of substrs occurs in s
containsAny(s, substrs) ==
    \E substr \in substrs :
        /\ Len(s) >= Len(substr)
        /\ \E i \in 0..(Len(s) - Len(substr)) : SubSeq(s, i + 1, i + Len(substr)) = substr

\* what the movie service answers to r.client.AddMovie: "" for success
AddMovieError(library, tmdbID, fate, duplicateMsg) ==
    IF fate = "add" THEN "connection refused"
    ELSE IF tmdbID \in DOMAIN library THEN duplicateMsg ELSE ""

\* an AddMovie that appends every requested tag id to those of an existing movie
AddMovieCallAppendAll(library, tmdbID, tagIDs, fate, duplicateMsg) ==
    LET errMsg == AddMovieError(library, tmdbID, fate, duplicateMsg)
    IN  IF errMsg = ""
        THEN [library |-> (tmdbID :> tagIDs) @@ library, err |-> FALSE, wrote |-> FALSE]
        ELSE IF fate # "ok"
        THEN [library |-> library, err |-> TRUE, wrote |-> FALSE]
        ELSE [library |-> [library EXCEPT ![tmdbID] = library[tmdbID] \o tagIDs],
              err |-> FALSE, wrote |-> TRUE]

\* AddMovie with its calls: r.client.AddMovie; on an "already exists" error
\* GetMovieByTMDBID, the merge of the tag ids, and UpdateMovieTags if a tag id
\* was added.  fate names the call that fails ("ok": none); wrote tells
\* whether UpdateMovieTags was called.
AddMovieCall(library, tmdbID, tagIDs, fate, duplicateMsg) ==
    LET errMsg == AddMovieError(library, tmdbID, fate, duplicateMsg)
    IN  IF errMsg = ""
        THEN [library |-> (tmdbID :> tagIDs) @@ library, err |-> FALSE, wrote |-> FALSE]
        ELSE IF ~containsAny(errMsg, {"already been added", "already exists"})
        THEN [library |-> library, err |-> TRUE, wrote |-> FALSE]
        ELSE IF fate = "get"
        THEN [library |-> library, err |-> TRUE, wrote |-> FALSE]
        ELSE LET existingTags == library[tmdbID]
                 existingTagMap == {existingTags[i] : i \in DOMAIN existingTags}
                 updatedTags == existingTags \o
                                    SelectSeq(tagIDs, LAMBDA t : t \notin existingTagMap)
                 addedCount == Len(updatedTags) - Len(existingTags)
             IN  IF addedCount > 0
                 THEN IF fate = "update"
                      THEN [library |-> library, err |-> TRUE, wrote |-> TRUE]
                      ELSE [library |-> [library EXCEPT ![tmdbID] = updatedTags],
                            err |-> FALSE, wrote |-> TRUE]
                 ELSE [library |-> library, err |-> FALSE, wrote |-> FALSE]

\* a subtype that leaves the series id out
collectionSubtypeBare(seriesID) == "metrograph-"

\* Subtype: fmt.Sprintf("metrograph-%s", seriesID) of CreateCollectionsFromJSON
collectionSubtype(seriesID) == "metrograph-" \o seriesID

\* a gate that lets every series through
SkippedByProcessNever(films) == FALSE

\* the gate of ProcessJSONToRadarr: if validMovies < 2 { continue }
SkippedByProcess(films) == validMovies(films) < 2

VARIABLES pc, title, variations, colA, colB, results,
          crawled, scrappedData, fileOk, fileData, wrote, written,
          jsonOk, snapshot, collections, tags,
          existingCollections, expectedNames, idx,
          deleteCollectionCalls, deleteTagCalls,
          movies, nextID, todo, runs, failures,
          createTagCalls, addMovieCalls, createCollectionCalls,
          tmdbAPIKey, matchFilms, filmIdx, titleVariations, varIdx, trace, outcomes,
          callCount, prevCall, lastCall, callers

titleVars == <<title, variations>>
mergeVars == <<colA, colB, results>>
storeVars == <<crawled, scrappedData, fileOk, fileData, wrote, written>>
serviceVars == <<collections, tags, movies, nextID>>
passVars == <<todo, runs, failures, createTagCalls, addMovieCalls, createCollectionCalls>>
syncVars == <<existingCollections, expectedNames, idx, deleteCollectionCalls, deleteTagCalls>>
downVars == <<jsonOk, snapshot, serviceVars, syncVars, passVars>>
clientVars == <<callCount, prevCall, lastCall, callers>>
matchVars == <<tmdbAPIKey, matchFilms, filmIdx, titleVariations, varIdx, trace, outcomes>>
vars == <<pc, titleVars, mergeVars, matchVars, clientVars, storeVars, downVars>>

NoSeries == [id \in {} |-> <<>>]

IdleTitle == title = "" /\ variations = <<>>
IdleMerge == colA = <<>> /\ colB = <<>> /\ results = <<>>
IdleMatch ==
    /\ tmdbAPIKey = "" /\ matchFilms = <<>> /\ filmIdx = 0
    /\ titleVariations = <<>> /\ varIdx = 0 /\ trace = <<>> /\ outcomes = <<>>
NoCall ==
    [op |-> "none", fate |-> "", label |-> "", tmdbID |-> 0, tagIDs |-> <<>>,
     existed |-> FALSE, had |-> <<>>, now |-> <<>>, id |-> 0, err |-> FALSE, wrote |-> FALSE]
IdleClient == callCount = 0 /\ prevCall = NoCall /\ lastCall = NoCall /\ callers = <<>>
IdleStore ==
    /\ crawled = NoSeries /\ scrappedData = NoSeries
    /\ fileOk = TRUE /\ fileData = NoSeries
    /\ wrote = FALSE /\ written = NoSeries
IdleSync ==
    /\ existingCollections = <<>> /\ expectedNames = {} /\ idx = 0
    /\ deleteCollectionCalls = {} /\ deleteTagCalls = {}
IdlePasses ==
    /\ todo = <<>> /\ runs = 0 /\ failures = 0
    /\ createTagCalls = {} /\ addMovieCalls = {} /\ createCollectionCalls = {}
IdleDown ==
    /\ jsonOk = TRUE /\ snapshot = NoSeries
    /\ collections = <<>> /\ tags = {} /\ movies = NoSeries /\ nextID = 1
    /\ IdleSync
    /\ IdlePasses

(***************************************************************************)
(* Title specification: cleanTitle applied to every bounded title.         *)
(***************************************************************************)
InitTitle ==
    /\ pc = "title"
    /\ title \in TitlesUpTo(MaxTitleTokens)
    /\ variations = <<>>
    /\ IdleMerge
    /\ IdleMatch
    /\ IdleClient
    /\ IdleStore
    /\ IdleDown

CleanTitle ==
    /\ pc = "title"
    /\ variations' = cleanTitle(title)
    /\ pc' = "cleaned"
    /\ UNCHANGED <<title, mergeVars, matchVars, clientVars, storeVars, downVars>>

NextTitle == CleanTitle

SpecTitle == InitTitle /\ [][NextTitle]_vars

(***************************************************************************)
(* Merge specification: dedupeFilms applied to every pair of bounded film  *)
(* lists, and applied once more to its own result.                         *)
(***************************************************************************)
InitMerge ==
    /\ pc = "merge"
    /\ colA \in SeqsUpTo(Films, MaxFilms)
    /\ colB \in SeqsUpTo(Films, MaxFilms)
    /\ results = <<>>
    /\ IdleTitle
    /\ IdleMatch
    /\ IdleClient
    /\ IdleStore
    /\ IdleDown

DedupeFilms ==
    /\ pc = "merge"
    /\ results' = dedupeFilms(colA, colB)
    /\ pc' = "merged"
    /\ UNCHANGED <<colA, colB, titleVars, matchVars, clientVars, storeVars, downVars>>

DedupeAgain ==
    /\ pc = "merged"
    /\ results' = dedupeFilms(results, colB)
    /\ pc' = "remerged"
    /\ UNCHANGED <<colA, colB, titleVars, matchVars, clientVars, storeVars, downVars>>

NextMerge == DedupeFilms \/ DedupeAgain

SpecMerge == InitMerge /\ [][NextMerge]_vars

(***************************************************************************)
(* C3.  dedupeFilms(existing, new) is the existing films, unchanged and in *)
(* order, followed in their order by every new film whose title is not a   *)
(* title of existing; its length is len(existing) plus the number of such  *)
(* new films.                                                              *)
(***************************************************************************)
NewKept == {i \in DOMAIN colB : \A j \in DOMAIN colA : colA[j].Title # colB[i].Title}

\* the k-th kept position of colB, counted from 1
KthKept(k) == CHOOSE i \in NewKept : Cardinality({j \in NewKept : j <= i}) = k

MergeIsExistingThenNew ==
    pc = "merged" =>
        /\ Len(results) = Len(colA) + Cardinality(NewKept)
        /\ \A i \in 1..Len(colA) : results[i] = colA[i]
        /\ \A k \in 1..Cardinality(NewKept) : results[Len(colA) + k] = colB[KthKept(k)]

MergeAppendedWitness ==
    /\ pc = "merged"
    /\ Len(colA) > 0
    /\ Cardinality(NewKept) = 2
    /\ colB[1].Title = colB[2].Title
    /\ Len(results) = Len(colA) + 2

(***************************************************************************)
(* C4.  Merge is idempotent: dedupeFilms(A, A) = A, also when A repeats a  *)
(* title, and merging B into dedupeFilms(A, B) once more changes nothing.  *)
(***************************************************************************)
MergeIdempotent ==
    [][/\ (pc = "merge" /\ colA = colB) => results' = colA
       /\ pc = "merged" => results' = results]_vars

MergeIdempotentWitness ==
    /\ pc = "remerged"
    /\ Len(colA) = 2
    /\ colA[1].Title = colA[2].Title
    /\ colB = colA
    /\ results = colA
(***************************************************************************)
(* Store specification: a crawl result in memory and a snapshot file on    *)
(* disk; either UpdateFileStore merges and writes, or main filters and     *)
(* writes.  Series "1" takes every bounded film list on both sides; series *)
(* "2" is absent, or holds three resolved films, or (in the scrape) the    *)
(* same films and one more with no identifier resolved, or a changed       *)
(* line-up.                                                                *)
(***************************************************************************)
SeriesName(id) == IF id = "1" THEN "X" ELSE "Y"

OtherStored ==
    <<[Title |-> "C", TMDBID |-> 33], [Title |-> "D", TMDBID |-> 44],
      [Title |-> "E", TMDBID |-> 55]>>

OtherScraped ==
    <<[Title |-> "C", TMDBID |-> 0], [Title |-> "D", TMDBID |-> 0],
      [Title |-> "E", TMDBID |-> 0], [Title |-> "F", TMDBID |-> 0]>>

\* series "2" scraped again after its line-up changed
OtherRescraped ==
    <<[Title |-> "C", TMDBID |-> 0], [Title |-> "D", TMDBID |-> 44],
      [Title |-> "F", TMDBID |-> 66], [Title |-> "G", TMDBID |-> 77]>>

StoreCatalogs(others) ==
    LET one == {NoSeries} \cup
               {"1" :> [Name |-> SeriesName("1"), Movies |-> m] : m \in SeqsUpTo(Films, MaxFilms)}
        two == {NoSeries} \cup
               {"2" :> [Name |-> SeriesName("2"), Movies |-> m] : m \in others}
    IN  {a @@ b : a \in one, b \in two}

InitStore ==
    /\ pc = "crawled"
    /\ crawled \in StoreCatalogs({OtherScraped, OtherRescraped, OtherStored})
    /\ scrappedData = crawled
    /\ fileOk \in BOOLEAN
    /\ fileData \in (IF fileOk THEN StoreCatalogs({OtherStored}) ELSE {NoSeries})
    /\ wrote = FALSE
    /\ written = NoSeries
    /\ IdleTitle
    /\ IdleMerge
    /\ IdleMatch
    /\ IdleClient
    /\ IdleDown

\* an update that takes an unreadable file for an empty one
UpdateFileStoreIgnoringError ==
    /\ pc = "crawled"
    /\ scrappedData' = MergeIntoStore(scrappedData, fileData)
    /\ written' = filteredResults(scrappedData')
    /\ wrote' = TRUE
    /\ pc' = "stored"
    /\ UNCHANGED <<crawled, fileOk, fileData, titleVars, mergeVars, matchVars, clientVars, downVars>>

UpdateFileStore ==
    /\ pc = "crawled"
    /\ IF ~fileOk
       THEN /\ pc' = "loadError"
            /\ UNCHANGED <<scrappedData, wrote, written>>
       ELSE /\ scrappedData' = MergeIntoStore(scrappedData, fileData)
            /\ written' = filteredResults(scrappedData')
            /\ wrote' = TRUE
            /\ pc' = "stored"
    /\ UNCHANGED <<crawled, fileOk, fileData, titleVars, mergeVars, matchVars, clientVars, downVars>>

\* the default run of main: filter the crawl result and write it
MainWrite ==
    /\ pc = "crawled"
    /\ written' = filteredResults(scrappedData)
    /\ wrote' = TRUE
    /\ pc' = "written"
    /\ UNCHANGED <<crawled, scrappedData, fileOk, fileData, titleVars, mergeVars, matchVars, clientVars, downVars>>

NextStore == UpdateFileStore \/ MainWrite

SpecStore == InitStore /\ [][NextStore]_vars
Resolved(films) == {i \in DOMAIN films : films[i].TMDBID > 0}

\* film f is an entry of the list movies, title and identifier alike
Holds(films, f) ==
    \E j \in DOMAIN films : films[j].Title = f.Title /\ films[j].TMDBID = f.TMDBID

(***************************************************************************)
(* C5.  Resolved identifiers are monotonic under merge: for a series id    *)
(* held by both the loaded snapshot and the fresh scrape, every stored     *)
(* film with TMDBID > 0 keeps its place in the merged list with the same   *)
(* title and the same TMDBID, whatever the scrape holds for that title.    *)
(***************************************************************************)
ResolvedSurvivesMerge ==
    pc = "stored" =>
        \A id \in DOMAIN fileData \cap DOMAIN crawled :
            \A i \in Resolved(fileData[id].Movies) :
                /\ i \in DOMAIN scrappedData[id].Movies
                /\ scrappedData[id].Movies[i].Title = fileData[id].Movies[i].Title
                /\ scrappedData[id].Movies[i].TMDBID = fileData[id].Movies[i].TMDBID

\* a stored resolved film whose title the scrape holds unresolved, and another
\* whose title the scrape holds under a different identifier
ResolvedSurvivesMergeWitness ==
    /\ pc = "stored"
    /\ "1" \in DOMAIN fileData \cap DOMAIN crawled
    /\ \E i \in Resolved(fileData["1"].Movies), j \in DOMAIN crawled["1"].Movies :
          /\ crawled["1"].Movies[j].Title = fileData["1"].Movies[i].Title
          /\ crawled["1"].Movies[j].TMDBID = 0
    /\ \E i \in Resolved(fileData["1"].Movies), j \in Resolved(crawled["1"].Movies) :
          /\ crawled["1"].Movies[j].Title = fileData["1"].Movies[i].Title
          /\ crawled["1"].Movies[j].TMDBID # fileData["1"].Movies[i].TMDBID

(***************************************************************************)
(* C6.  As claimed: every resolved film of every series of the loaded      *)
(* snapshot is in the written snapshot with the same TMDBID, whether or    *)
(* not the fresh scrape still contains that series id.                     *)
(***************************************************************************)
StoredResolvedAllWritten ==
    pc = "stored" =>
        \A id \in DOMAIN fileData :
            \A i \in Resolved(fileData[id].Movies) :
                /\ id \in DOMAIN written
                /\ Holds(written[id].Movies, fileData[id].Movies[i])

(***************************************************************************)
(* C6, amended.  Every resolved film of a series of the loaded snapshot is *)
(* in the written snapshot with the same TMDBID when the fresh scrape      *)
(* still contains that series id and the merged series has more than 2     *)
(* resolved films; a stored series that the scrape no longer contains is   *)
(* not written at all.                                                     *)
(***************************************************************************)
StoredResolvedWrittenIfScraped ==
    pc = "stored" =>
        /\ \A id \in DOMAIN fileData \cap DOMAIN crawled :
              Cardinality(Resolved(scrappedData[id].Movies)) > 2 =>
                  /\ id \in DOMAIN written
                  /\ \A i \in Resolved(fileData[id].Movies) :
                        Holds(written[id].Movies, fileData[id].Movies[i])
        /\ \A id \in DOMAIN fileData \ DOMAIN crawled : id \notin DOMAIN written

StoredResolvedWrittenWitness ==
    /\ pc = "stored"
    /\ DOMAIN fileData = {"1", "2"}
    /\ DOMAIN crawled = {"2"}
    /\ DOMAIN written = {"2"}
    /\ Resolved(crawled["2"].Movies) = {}
    /\ Cardinality(Resolved(written["2"].Movies)) = 3
    /\ Resolved(fileData["1"].Movies) # {}

(***************************************************************************)
(* C7.  At every persistence boundary the written snapshot holds a series  *)
(* if and only if it has more than 2 films with TMDBID > 0, and holds it   *)
(* with all its films.                                                     *)
(***************************************************************************)
WrittenIffEligible ==
    pc \in {"stored", "written"} =>
        /\ wrote
        /\ DOMAIN written \subseteq DOMAIN scrappedData
        /\ \A id \in DOMAIN scrappedData :
              /\ id \in DOMAIN written <=> Cardinality(Resolved(scrappedData[id].Movies)) > 2
              /\ id \in DOMAIN written => written[id] = scrappedData[id]

\* series "1" has exactly 2 resolved films and is left out while series "2",
\* with 3, is written
WrittenIffEligibleWitness ==
    /\ pc \in {"stored", "written"}
    /\ DOMAIN scrappedData = {"1", "2"}
    /\ Cardinality(Resolved(scrappedData["1"].Movies)) = 2
    /\ Cardinality(Resolved(scrappedData["2"].Movies)) = 3
    /\ DOMAIN written = {"2"}
(***************************************************************************)
(* C10.  For every title t, cleanTitle(t) has between 1 and 4 entries, its *)
(* first entry is t, no two entries are equal and no entry is the empty    *)
(* string.                                                                 *)
(***************************************************************************)
VariantsWellFormed ==
    pc = "cleaned" =>
        /\ Len(variations) \in 1..4
        /\ variations[1] = title
        /\ \A i, j \in DOMAIN variations : i # j => variations[i] # variations[j]
        /\ \A i \in DOMAIN variations : variations[i] # ""

(***************************************************************************)
(* Sync specification: one run of SyncCollectionsFromJSON over a snapshot  *)
(* file, a collection service and a tagging service.  Series "1" is absent *)
(* or carries every pattern of resolved and unresolved films under the     *)
(* name "X" or the empty name; series "2" is absent or eligible.  The      *)
(* service holds at most MaxCollections of the collections CandidateNames  *)
(* x CandidateSubtypes.                                                    *)
(***************************************************************************)
SnapshotFilm(base, i, resolved) ==
    [Title |-> "Film " \o ToString(base + i), TMDBID |-> IF resolved THEN base + i ELSE 0]

SnapshotLists(base, n) ==
    {[i \in 1..k |-> SnapshotFilm(base, i, i \in R)] : k \in 0..n, R \in SUBSET (1..n)}

Snapshots ==
    LET one == {NoSeries} \cup
               {"1" :> [Name |-> n, Movies |-> m] :
                   n \in {"X", ""}, m \in SnapshotLists(100, MaxSnapshotFilms)}
        two == {NoSeries,
                "2" :> [Name |-> "Y", Movies |-> [i \in 1..3 |-> SnapshotFilm(200, i, TRUE)]]}
    IN  {a @@ b : a \in one, b \in two}

CandidateNames == <<"Metrograph: X", "Metrograph: Y", "Metrograph: ", "Unrelated">>

CandidateSubtypes == <<"metrograph-1", "metrograph-", "imdb-top">>

\* candidate k of the Len(CandidateNames) * Len(CandidateSubtypes) collections
Candidate(k) ==
    [ID      |-> ToString(k),
     Name    |-> CandidateNames[((k - 1) \div Len(CandidateSubtypes)) + 1],
     Subtype |-> CandidateSubtypes[((k - 1) % Len(CandidateSubtypes)) + 1]]

RECURSIVE ListOf(_)
ListOf(ks) ==
    IF ks = {} THEN <<>>
    ELSE LET k == CHOOSE x \in ks : \A y \in ks : x <= y
         IN  <<Candidate(k)>> \o ListOf(ks \ {k})

CollectionLists ==
    {ListOf(ks) : ks \in {x \in SUBSET (1..(Len(CandidateNames) * Len(CandidateSubtypes))) :
                             Cardinality(x) <= MaxCollections}}

SeriesTags == {[ID |-> 1, Label |-> tagName("1")], [ID |-> 2, Label |-> tagName("2")]}

InitSync ==
    /\ pc = "idle"
    /\ jsonOk \in BOOLEAN
    /\ snapshot \in (IF jsonOk THEN Snapshots ELSE {NoSeries})
    /\ collections \in CollectionLists
    /\ tags = SeriesTags
    /\ movies = NoSeries
    /\ nextID = 1
    /\ IdleSync
    /\ IdlePasses
    /\ IdleTitle
    /\ IdleMerge
    /\ IdleMatch
    /\ IdleClient
    /\ IdleStore

\* a listing that answers a failed request with an empty list and no error
GetCollectionsEmptyOnError(colls, answered) ==
    [collections |-> IF answered THEN colls ELSE <<>>, err |-> FALSE]

\* AgregarrClient.GetCollections: the collections of the service, or an error
\* when the request, its status, the read or the decoding fails
GetCollections(colls, answered) ==
    IF answered THEN [collections |-> colls, err |-> FALSE]
    ELSE [collections |-> <<>>, err |-> TRUE]

\* os.ReadFile, json.Unmarshal, GetCollections and the expectedNames loop
SyncStart ==
    /\ pc = "idle"
    /\ \E listed \in BOOLEAN :
          IF jsonOk /\ ~GetCollections(collections, listed).err
          THEN /\ existingCollections' = GetCollections(collections, listed).collections
               /\ expectedNames' = ExpectedNames(snapshot)
               /\ idx' = 1
               /\ pc' = "sync"
          ELSE /\ pc' = "syncError"
               /\ UNCHANGED <<existingCollections, expectedNames, idx>>
    /\ UNCHANGED <<deleteCollectionCalls, deleteTagCalls, jsonOk, snapshot, serviceVars,
                   passVars, titleVars, mergeVars, matchVars, clientVars, storeVars>>

\* one turn of the loop over existingCollections
SyncStep ==
    /\ pc = "sync"
    /\ idx <= Len(existingCollections)
    /\ LET collection == existingCollections[idx]
       IN  IF IsMetrographCollection(collection.Name) /\ collection.Name \notin expectedNames
           THEN \E ok \in BOOLEAN, fate \in {"ok", "list", "delete"} :
                   /\ collections' = DeleteCollection(collections, collection.ID, ok)
                   /\ deleteCollectionCalls' = deleteCollectionCalls \cup {collection}
                   /\ IF IsMetrographTag(collection.Subtype)
                      THEN /\ tags' = DeleteTag(tags, collection.Subtype, fate)
                           /\ deleteTagCalls' = deleteTagCalls \cup {collection.Subtype}
                      ELSE UNCHANGED <<tags, deleteTagCalls>>
           ELSE UNCHANGED <<collections, tags, deleteCollectionCalls, deleteTagCalls>>
    /\ idx' = idx + 1
    /\ UNCHANGED <<pc, existingCollections, expectedNames, jsonOk, snapshot,
                   movies, nextID, passVars, titleVars, mergeVars, matchVars, clientVars, storeVars>>

SyncDone ==
    /\ pc = "sync"
    /\ idx > Len(existingCollections)
    /\ pc' = "syncDone"
    /\ UNCHANGED <<titleVars, mergeVars, matchVars, clientVars, storeVars, downVars>>

NextSync == SyncStart \/ SyncStep \/ SyncDone

SpecSync == InitSync /\ [][NextSync]_vars

\* strings.HasPrefix
HasPrefix(s, prefix) == Len(s) >= Len(prefix) /\ SubSeq(s, 1, Len(prefix)) = prefix

Existing == {existingCollections[i] : i \in DOMAIN existingCollections}

(***************************************************************************)
(* C1.  The sync pass attempts to delete exactly the existing collections  *)
(* whose name starts with "Metrograph: " and is not in expectedNames, a    *)
(* name equal to the bare prefix included.                                 *)
(***************************************************************************)
SyncDeletesExactlyStale ==
    pc = "syncDone" =>
        deleteCollectionCalls =
            {c \in Existing : HasPrefix(c.Name, "Metrograph: ") /\ c.Name \notin expectedNames}

(***************************************************************************)
(* C2.  No DeleteCollection call is ever issued for a collection whose     *)
(* name does not start with "Metrograph: ", and no DeleteTag call for a    *)
(* label that does not start with "metrograph-".                           *)
(***************************************************************************)
SyncTouchesOnlyOwned ==
    /\ \A c \in deleteCollectionCalls : HasPrefix(c.Name, "Metrograph: ")
    /\ \A label \in deleteTagCalls : HasPrefix(label, "metrograph-")

\* a stale collection was deleted with its tag while an unrelated collection that
\* carries a series' tag label, and is not expected either, was passed over
SyncTouchesOnlyOwnedWitness ==
    /\ pc = "syncDone"
    /\ deleteCollectionCalls # {}
    /\ deleteTagCalls # {}
    /\ \E c \in Existing :
          /\ c.Name = "Unrelated"
          /\ c.Subtype = "metrograph-1"
          /\ c \notin deleteCollectionCalls
          /\ c.Name \notin expectedNames
          /\ \E i \in DOMAIN collections : collections[i] = c

(***************************************************************************)
(* C9.  In the sync pass a series with 2 or fewer films with TMDBID > 0 is *)
(* treated as absent: expectedNames holds the names of the series with     *)
(* more than 2 such films and no other.                                    *)
(***************************************************************************)
ExpectedNamesAreEligible ==
    pc \in {"sync", "syncDone"} =>
        expectedNames =
            {"Metrograph: " \o snapshot[id].Name :
                id \in {i \in DOMAIN snapshot : Cardinality(Resolved(snapshot[i].Movies)) > 2}}
(***************************************************************************)
(* Creation specification: up to MaxRuns runs of ProcessJSONToRadarr and   *)
(* CreateCollectionsFromJSON, in any order, over one snapshot file.  Go    *)
(* ranges over the map of series in any order; at most MaxFailures calls   *)
(* to a service fail.                                                      *)
(***************************************************************************)
Orders(S) ==
    {q \in [1..Cardinality(S) -> S] : \A i, j \in DOMAIN q : i # j => q[i] # q[j]}

PassEnded ==
    {"idle", "processDone", "processError", "createDone", "createError", "syncDone", "syncError"}

InitCreate ==
    /\ pc = "idle"
    /\ jsonOk \in BOOLEAN
    /\ snapshot \in (IF jsonOk THEN Snapshots ELSE {NoSeries})
    /\ collections \in {<<>>, <<Candidate(1)>>}
    /\ tags \in {{}, SeriesTags}
    /\ movies \in {NoSeries, 101 :> <<9>>}
    /\ nextID = 10
    /\ IdleSync
    /\ IdlePasses
    /\ IdleTitle
    /\ IdleMerge
    /\ IdleMatch
    /\ IdleClient
    /\ IdleStore

\* os.ReadFile and json.Unmarshal of ProcessJSONToRadarr
StartProcess ==
    /\ pc \in PassEnded
    /\ runs < MaxRuns
    /\ runs' = runs + 1
    /\ IF jsonOk
       THEN \E order \in Orders(DOMAIN snapshot) : todo' = order /\ pc' = "process"
       ELSE todo' = <<>> /\ pc' = "processError"
    /\ UNCHANGED <<failures, createTagCalls, addMovieCalls, createCollectionCalls,
                   jsonOk, snapshot, serviceVars, syncVars, titleVars, mergeVars, matchVars, clientVars, storeVars>>

\* one turn of the loop over the series of ProcessJSONToRadarr
ProcessSeries ==
    /\ pc = "process"
    /\ todo # <<>>
    /\ LET seriesID == Head(todo)
           series == snapshot[seriesID]
       IN  IF SkippedByProcess(series.Movies)
           THEN UNCHANGED <<tags, movies, nextID, failures, createTagCalls, addMovieCalls>>
           ELSE \E fate \in {"ok", "list", "add"}, failing \in SUBSET Resolved(series.Movies) :
                   LET r == CreateTag(tags, tagName(seriesID), fate, nextID)
                       failed == IF r.err THEN 1 ELSE Cardinality(failing)
                   IN  /\ failures + failed <= MaxFailures
                       /\ failures' = failures + failed
                       /\ createTagCalls' = createTagCalls \cup {tagName(seriesID)}
                       /\ tags' = r.tags
                       /\ nextID' = IF r.tags # tags THEN nextID + 1 ELSE nextID
                       /\ IF r.err
                          THEN UNCHANGED <<movies, addMovieCalls>>
                          ELSE /\ movies' = AddMovies(movies, series.Movies, 1, r.id, failing)
                               /\ addMovieCalls' = addMovieCalls \cup
                                     {[TMDBID |-> series.Movies[i].TMDBID, Tags |-> <<r.id>>] :
                                         i \in Resolved(series.Movies)}
    /\ todo' = Tail(todo)
    /\ UNCHANGED <<pc, runs, collections, createCollectionCalls, jsonOk, snapshot, syncVars,
                   titleVars, mergeVars, matchVars, clientVars, storeVars>>

ProcessDone ==
    /\ pc = "process"
    /\ todo = <<>>
    /\ pc' = "processDone"
    /\ UNCHANGED <<titleVars, mergeVars, matchVars, clientVars, storeVars, downVars>>

\* os.ReadFile and json.Unmarshal of CreateCollectionsFromJSON
StartCreate ==
    /\ pc \in PassEnded
    /\ runs < MaxRuns
    /\ runs' = runs + 1
    /\ IF jsonOk
       THEN \E order \in Orders(DOMAIN snapshot) : todo' = order /\ pc' = "create"
       ELSE todo' = <<>> /\ pc' = "createError"
    /\ UNCHANGED <<failures, createTagCalls, addMovieCalls, createCollectionCalls,
                   jsonOk, snapshot, serviceVars, syncVars, titleVars, mergeVars, matchVars, clientVars, storeVars>>

\* one turn of the loop over the series of CreateCollectionsFromJSON: the tag id
\* is looked up, a lookup that fails ends the pass with its error, and the
\* collection is created whatever validMovies is
CreateSeries ==
    /\ pc = "create"
    /\ todo # <<>>
    /\ LET seriesID == Head(todo)
           series == snapshot[seriesID]
       IN  \E listed \in BOOLEAN, created \in BOOLEAN :
              LET tagID == IF listed THEN GetTagIDByName(tags, tagName(seriesID)) ELSE 0
                  failed == IF ~listed THEN 1 ELSE IF tagID # 0 /\ ~created THEN 1 ELSE 0
              IN  /\ failures + failed <= MaxFailures
                  /\ failures' = failures + failed
                  /\ IF tagID = 0
                     THEN /\ pc' = "createError"
                          /\ UNCHANGED <<todo, collections, nextID, createCollectionCalls>>
                     ELSE /\ pc' = pc
                          /\ todo' = Tail(todo)
                          /\ createCollectionCalls' = createCollectionCalls \cup
                                {[Series |-> seriesID, Name |-> collectionName(series),
                                  Subtype |-> collectionSubtype(seriesID),
                                  RadarrTagID |-> tagID]}
                          /\ IF created
                             THEN /\ collections' = Append(collections,
                                         [ID |-> "new" \o ToString(nextID),
                                          Name |-> collectionName(series),
                                          Subtype |-> collectionSubtype(seriesID)])
                                  /\ nextID' = nextID + 1
                             ELSE UNCHANGED <<collections, nextID>>
    /\ UNCHANGED <<runs, tags, movies, createTagCalls, addMovieCalls, jsonOk, snapshot,
                   syncVars, titleVars, mergeVars, matchVars, clientVars, storeVars>>

CreateDone ==
    /\ pc = "create"
    /\ todo = <<>>
    /\ pc' = "createDone"
    /\ UNCHANGED <<titleVars, mergeVars, matchVars, clientVars, storeVars, downVars>>

NextCreate ==
    \/ StartProcess \/ ProcessSeries \/ ProcessDone
    \/ StartCreate \/ CreateSeries \/ CreateDone

SpecCreate == InitCreate /\ [][NextCreate]_vars

\* the TMDB ids of the resolved films of a series
ResolvedIDs(series) == {series.Movies[i].TMDBID : i \in Resolved(series.Movies)}

(***************************************************************************)
(* C8.  Downstream creation is gated by the threshold of persistence: a    *)
(* series with 2 or fewer films with TMDBID > 0 gets no tag created, no    *)
(* movie added and no collection created; a series with 3 or more gets the *)
(* tag and the movies from a run of ProcessJSONToRadarr, and the           *)
(* collection from a run of CreateCollectionsFromJSON, when no call fails. *)
(***************************************************************************)
CreationGatedByEligibility ==
    \A id \in DOMAIN snapshot :
        IF Cardinality(Resolved(snapshot[id].Movies)) <= 2
        THEN /\ tagName(id) \notin createTagCalls
             /\ \A call \in addMovieCalls : call.TMDBID \notin ResolvedIDs(snapshot[id])
             /\ \A call \in createCollectionCalls : call.Subtype # tagName(id)
        ELSE /\ (pc = "processDone" /\ failures = 0) =>
                    /\ tagName(id) \in createTagCalls
                    /\ \A t \in ResolvedIDs(snapshot[id]) :
                          \E call \in addMovieCalls : call.TMDBID = t
             /\ (pc = "createDone" /\ failures = 0) =>
                    \E call \in createCollectionCalls : call.Subtype = tagName(id)

(***************************************************************************)
(* C11.  cleanTitle emits the original title, then the bracket-stripped,   *)
(* the presents-stripped and the both-stripped form in that order, and     *)
(* leaves out exactly the stripped forms that are empty after trimming or  *)
(* equal to a variant emitted before them.                                 *)
(***************************************************************************)
EmitUnlessEmptyOrEarlier(emitted, candidate) ==
    IF candidate = "" \/ \E i \in DOMAIN emitted : emitted[i] = candidate
    THEN emitted ELSE Append(emitted, candidate)

VariantsInOrder ==
    pc = "cleaned" =>
        LET bracketStripped  == TrimSpace(ReplaceBrackets(title))
            presentsStripped == TrimSpace(ReplacePresents(title))
            bothStripped     == TrimSpace(ReplacePresents(bracketStripped))
        IN  variations =
                EmitUnlessEmptyOrEarlier(
                    EmitUnlessEmptyOrEarlier(
                        EmitUnlessEmptyOrEarlier(<<title>>, bracketStripped),
                        presentsStripped),
                    bothStripped)


(***************************************************************************)
(* Matching specification: populateIMDBID over a list of scraped films,    *)
(* SearchTMDB for each of them and searchTMDBWithTitle for each variation. *)
(* trace records, in order, every time.Sleep and every http.Get of the     *)
(* pass; outcomes records what SearchTMDB returned for each film.          *)
(***************************************************************************)
MatchTitles == {"Carol", "Carol [4K DCP]", "ACE Presents: Carol [4K DCP]"}

\* what the lookup service does with one request: the transport fails, the
\* status is not 200, the body does not decode, or it lists candidates
Answers ==
    {[failed |-> f, candidates |-> <<>>] : f \in {"transport", "status", "decode"}}
        \cup {[failed |-> "", candidates |-> c] : c \in {<<>>, <<11>>, <<22, 11>>}}

SleepEvent(i, query) ==
    [kind |-> "sleep", film |-> i, query |-> query, failed |-> "", candidates |-> <<>>]

GetEvent(i, query, answer) ==
    [kind |-> "get", film |-> i, query |-> query,
     failed |-> answer.failed, candidates |-> answer.candidates]

\* a lookup that sends its request at once
searchTMDBWithTitleNoSleep(i, query, answer) == <<GetEvent(i, query, answer)>>

\* searchTMDBWithTitle: time.Sleep(250ms), then http.Get
searchTMDBWithTitle(i, query, answer) ==
    <<SleepEvent(i, query), GetEvent(i, query, answer)>>

\* a lookup that returns the last result
FirstResultLast(candidates) == candidates[Len(candidates)]

\* return &searchResp.Results[0]
FirstResult(candidates) == candidates[1]

\* a loop over the films that ends at the first film that is not found
NextFilmStopOnNotFound(i, n, err) == IF err = "no results found" THEN n + 1 ELSE i + 1

\* a loop over the films that ends at the first request that fails
NextFilmStopOnFailure(i, n, err) ==
    IF err \in {"transport", "status", "decode"} THEN n + 1 ELSE i + 1

\* for i := range films: whatever SearchTMDB returned, the next film is next
NextFilm(i, n, err) == i + 1

InitMatch ==
    /\ pc = "populate"
    /\ tmdbAPIKey \in {"", "key"}
    /\ matchFilms \in SeqsUpTo([Title : MatchTitles, TMDBID : {0}], MaxFilms)
    /\ filmIdx = 1
    /\ titleVariations = <<>>
    /\ varIdx = 0
    /\ trace = <<>>
    /\ outcomes = <<>>
    /\ IdleClient
    /\ IdleTitle
    /\ IdleMerge
    /\ IdleStore
    /\ IdleDown

\* populateIMDBID with no API key: the film is left as it is
SkipWithoutKey ==
    /\ pc = "populate"
    /\ filmIdx <= Len(matchFilms)
    /\ tmdbAPIKey = ""
    /\ outcomes' = Append(outcomes, "noKey")
    /\ filmIdx' = NextFilm(filmIdx, Len(matchFilms), "")
    /\ UNCHANGED <<pc, tmdbAPIKey, matchFilms, titleVariations, varIdx, trace,
                   titleVars, mergeVars, clientVars, storeVars, downVars>>

\* SearchTMDB up to its loop: titleVariations := cleanTitle(title)
SearchTMDBStart ==
    /\ pc = "populate"
    /\ filmIdx <= Len(matchFilms)
    /\ tmdbAPIKey # ""
    /\ titleVariations' = cleanTitle(matchFilms[filmIdx].Title)
    /\ varIdx' = 1
    /\ pc' = "search"
    /\ UNCHANGED <<tmdbAPIKey, matchFilms, filmIdx, trace, outcomes,
                   titleVars, mergeVars, clientVars, storeVars, downVars>>

\* one turn of the loop of SearchTMDB, and what populateIMDBID does with the
\* result when the loop ends
SearchVariation ==
    /\ pc = "search"
    /\ \E answer \in Answers :
        LET variation == titleVariations[varIdx]
            n == Len(matchFilms)
        IN  /\ trace' = trace \o searchTMDBWithTitle(filmIdx, variation, answer)
            /\ IF answer.failed # ""
               THEN /\ outcomes' = Append(outcomes, answer.failed)
                    /\ filmIdx' = NextFilm(filmIdx, n, answer.failed)
                    /\ pc' = "populate"
                    /\ UNCHANGED <<matchFilms, varIdx>>
               ELSE IF Len(answer.candidates) > 0
               THEN /\ matchFilms' = [matchFilms EXCEPT
                                         ![filmIdx].TMDBID = FirstResult(answer.candidates)]
                    /\ outcomes' = Append(outcomes, "found")
                    /\ filmIdx' = NextFilm(filmIdx, n, "")
                    /\ pc' = "populate"
                    /\ UNCHANGED varIdx
               ELSE IF varIdx < Len(titleVariations)
               THEN /\ varIdx' = varIdx + 1
                    /\ UNCHANGED <<pc, matchFilms, filmIdx, outcomes>>
               ELSE /\ outcomes' = Append(outcomes, "no results found")
                    /\ filmIdx' = NextFilm(filmIdx, n, "no results found")
                    /\ pc' = "populate"
                    /\ UNCHANGED <<matchFilms, varIdx>>
    /\ UNCHANGED <<tmdbAPIKey, titleVariations, titleVars, mergeVars, clientVars, storeVars, downVars>>

\* populateIMDBID returns; it has no result
PopulateDone ==
    /\ pc = "populate"
    /\ filmIdx > Len(matchFilms)
    /\ pc' = "populated"
    /\ UNCHANGED <<matchVars, titleVars, mergeVars, clientVars, storeVars, downVars>>

NextMatch == SkipWithoutKey \/ SearchTMDBStart \/ SearchVariation \/ PopulateDone

SpecMatch == InitMatch /\ [][NextMatch]_vars


\* the requests sent for film i, in the order they were sent
GetsOf(i) == SelectSeq(trace, LAMBDA e : e.kind = "get" /\ e.film = i)

Looked(i) == i \in DOMAIN outcomes

\* the film whose variations titleVariations holds: the one being searched, or
\* the one SearchTMDB has just returned for
SearchedFilm == IF pc = "search" THEN filmIdx ELSE filmIdx - 1

(***************************************************************************)
(* C12.  SearchTMDB sends one request per variation, in the order of the   *)
(* list cleanTitle gave it; a request is followed by another for the same  *)
(* film only if it returned no candidate; a film that is found was found   *)
(* by its last request and carries that request's first candidate.         *)
(***************************************************************************)
SearchStopsAtFirstHit ==
    /\ (tmdbAPIKey # "" /\ SearchedFilm \in DOMAIN matchFilms) =>
           LET gets == GetsOf(SearchedFilm)
           IN  /\ Len(gets) <= Len(titleVariations)
               /\ \A k \in DOMAIN gets : gets[k].query = titleVariations[k]
               /\ pc = "search" => varIdx = Len(gets) + 1
    /\ \A i \in DOMAIN matchFilms :
           LET gets == GetsOf(i)
           IN  /\ \A k \in 1..(Len(gets) - 1) :
                      gets[k].failed = "" /\ gets[k].candidates = <<>>
               /\ (gets # <<>> /\ gets[Len(gets)].candidates # <<>>) =>
                      /\ Looked(i)
                      /\ outcomes[i] = "found"
                      /\ matchFilms[i].TMDBID = gets[Len(gets)].candidates[1]
               /\ (Looked(i) /\ outcomes[i] = "found") =>
                      gets # <<>> /\ gets[Len(gets)].candidates # <<>>

SearchStopsAtFirstHitWitness ==
    /\ pc = "populated"
    /\ Len(matchFilms) >= 1
    /\ outcomes[1] = "found"
    /\ Len(GetsOf(1)) = 3
    /\ Len(cleanTitle(matchFilms[1].Title)) = 4
    /\ GetsOf(1)[3].candidates = <<22, 11>>

(***************************************************************************)
(* C13.  A film none of whose variations yields a candidate keeps          *)
(* TMDBID = 0 (SearchTMDB returns for it when every variation of its list  *)
(* was looked up and none gave a candidate), and the pass goes             *)
(* on: when populateIMDBID returns, SearchTMDB has been called for every   *)
(* film of the list and a request was sent for each of them.               *)
(***************************************************************************)
NotFoundIsNotFatal ==
    /\ \A i \in DOMAIN outcomes :
           outcomes[i] = "no results found" =>
               /\ matchFilms[i].TMDBID = 0
               /\ GetsOf(i) # <<>>
               /\ i = SearchedFilm => Len(GetsOf(i)) = Len(titleVariations)
               /\ \A k \in DOMAIN GetsOf(i) :
                      GetsOf(i)[k].failed = "" /\ GetsOf(i)[k].candidates = <<>>
    /\ pc = "populated" =>
           /\ Len(outcomes) = Len(matchFilms)
           /\ tmdbAPIKey # "" => \A i \in DOMAIN matchFilms : GetsOf(i) # <<>>

NotFoundIsNotFatalWitness ==
    /\ pc = "populated"
    /\ Len(matchFilms) = 2
    /\ outcomes[1] = "no results found"
    /\ outcomes[2] = "found"
    /\ matchFilms[1].TMDBID = 0
    /\ matchFilms[2].TMDBID > 0

(***************************************************************************)
(* C14.  After a request that fails (transport error, status other than    *)
(* 200) no further request is sent in the pass.                            *)
(***************************************************************************)
LookupErrorEndsPass ==
    \A k \in DOMAIN trace :
        (trace[k].kind = "get" /\ trace[k].failed \in {"transport", "status"}) =>
            \A j \in (k + 1)..Len(trace) : trace[j].kind # "get"

(***************************************************************************)
(* C14 as the code has it.  A request that fails ends the lookups of its   *)
(* film only: it is the last request for that film, the film keeps         *)
(* TMDBID = 0, SearchTMDB returns the error, and populateIMDBID goes on to *)
(* the next film; when it returns, every film of the list was looked up.   *)
(***************************************************************************)
LookupErrorEndsFilmOnly ==
    /\ \A i \in DOMAIN matchFilms :
           LET gets == GetsOf(i)
           IN  /\ \A k \in DOMAIN gets : gets[k].failed # "" => k = Len(gets)
               /\ (gets # <<>> /\ gets[Len(gets)].failed # "") =>
                      /\ Looked(i)
                      /\ outcomes[i] = gets[Len(gets)].failed
                      /\ matchFilms[i].TMDBID = 0
    /\ pc = "populated" =>
           /\ Len(outcomes) = Len(matchFilms)
           /\ tmdbAPIKey # "" => \A i \in DOMAIN matchFilms : GetsOf(i) # <<>>

LookupErrorEndsFilmOnlyWitness ==
    /\ pc = "populated"
    /\ Len(matchFilms) = 2
    /\ outcomes[1] = "status"
    /\ Len(GetsOf(1)) < Len(cleanTitle(matchFilms[1].Title))
    /\ outcomes[2] = "found"

(***************************************************************************)
(* C15.  Between every two requests of a pass there is a delay step,       *)
(* whether they are for the same film or for two films.                    *)
(***************************************************************************)
DelayBetweenRequests ==
    \A j, k \in DOMAIN trace :
        (j < k /\ trace[j].kind = "get" /\ trace[k].kind = "get") =>
            \E m \in (j + 1)..(k - 1) : trace[m].kind = "sleep"

DelayBetweenRequestsWitness ==
    \E k \in DOMAIN trace :
        /\ k + 2 \in DOMAIN trace
        /\ trace[k].kind = "get" /\ trace[k].film = 1
        /\ trace[k + 1].kind = "sleep"
        /\ trace[k + 2].kind = "get" /\ trace[k + 2].film = 2


(***************************************************************************)
(* C16.  Tag label and collection subtype never diverge: every tag that    *)
(* ProcessJSONToRadarr asks for is labelled "metrograph-" + s for a series *)
(* id s of the snapshot, and every collection CreateCollectionsFromJSON    *)
(* creates for s has Subtype "metrograph-" + s, Name "Metrograph: " + the  *)
(* series name, and the id of the tag that carries that label.             *)
(***************************************************************************)
LabelAndSubtypeAgree ==
    /\ \A label \in createTagCalls :
           \E id \in DOMAIN snapshot :
               label = "metrograph-" \o id /\ ~SkippedByProcess(snapshot[id].Movies)
    /\ \A call \in createCollectionCalls :
           /\ call.Series \in DOMAIN snapshot
           /\ call.Subtype = "metrograph-" \o call.Series
           /\ call.Name = "Metrograph: " \o snapshot[call.Series].Name
           /\ \E t \in tags : t.ID = call.RadarrTagID /\ t.Label = call.Subtype
           /\ \A t \in tags : t.Label = call.Subtype => t.ID = call.RadarrTagID
    /\ \A i \in DOMAIN collections :
           HasPrefix(collections[i].ID, "new") =>
               \E call \in createCollectionCalls :
                   collections[i].Name = call.Name /\ collections[i].Subtype = call.Subtype

LabelAndSubtypeAgreeWitness ==
    /\ pc = "createDone"
    /\ "metrograph-1" \in createTagCalls
    /\ \E call \in createCollectionCalls :
           /\ call.Series = "1"
           /\ call.RadarrTagID >= 10
           /\ \E i \in DOMAIN collections :
                  collections[i].Subtype = call.Subtype /\ HasPrefix(collections[i].ID, "new")


(***************************************************************************)
(* Client specification: calls of RadarrClient.CreateTag and               *)
(* RadarrClient.AddMovie, one after the other, on a tagging and movie      *)
(* service that may fail any of the requests.  lastCall and prevCall       *)
(* record the last two calls with what they returned.                      *)
(***************************************************************************)
ClientLabels == {tagName("1"), tagName("3")}

ClientMovies == {101, 102}

ClientTagLists == {<<1>>, <<2>>, <<1, 2>>, <<2, 2>>}

DuplicateMessages == {"This movie has already been added", "movie already exists"}

TagsOfMovie(library, tmdbID) == IF tmdbID \in DOMAIN library THEN library[tmdbID] ELSE <<>>

InitClient ==
    /\ pc = "client"
    /\ tags \in {{}, SeriesTags}
    /\ movies \in {NoSeries, 101 :> <<1>>, 101 :> <<2, 1>>}
    /\ nextID = 10
    /\ collections = <<>>
    /\ jsonOk = TRUE
    /\ snapshot = NoSeries
    /\ IdleClient
    /\ IdleSync
    /\ IdlePasses
    /\ IdleTitle
    /\ IdleMerge
    /\ IdleMatch
    /\ IdleStore

ClientCreateTag ==
    /\ pc = "client"
    /\ callCount < MaxCalls
    /\ \E label \in ClientLabels, fate \in {"ok", "list", "add"} :
          LET r == CreateTag(tags, label, fate, nextID)
          IN  /\ tags' = r.tags
              /\ nextID' = IF r.tags # tags THEN nextID + 1 ELSE nextID
              /\ lastCall' = [NoCall EXCEPT !.op = "CreateTag", !.fate = fate,
                                            !.label = label,
                                            !.existed = (\E t \in tags : t.Label = label),
                                            !.id = r.id, !.err = r.err,
                                            !.wrote = (r.tags # tags)]
    /\ prevCall' = lastCall
    /\ callCount' = callCount + 1
    /\ UNCHANGED <<pc, callers, movies, collections, jsonOk, snapshot, syncVars, passVars,
                   titleVars, mergeVars, matchVars, storeVars>>

ClientAddMovie ==
    /\ pc = "client"
    /\ callCount < MaxCalls
    /\ \E tmdbID \in ClientMovies, tagIDs \in ClientTagLists,
          fate \in {"ok", "add", "get", "update"}, duplicateMsg \in DuplicateMessages :
          LET r == AddMovieCall(movies, tmdbID, tagIDs, fate, duplicateMsg)
          IN  /\ movies' = r.library
              /\ lastCall' = [NoCall EXCEPT !.op = "AddMovie", !.fate = fate,
                                            !.tmdbID = tmdbID, !.tagIDs = tagIDs,
                                            !.existed = (tmdbID \in DOMAIN movies),
                                            !.had = TagsOfMovie(movies, tmdbID),
                                            !.now = TagsOfMovie(r.library, tmdbID),
                                            !.err = r.err, !.wrote = r.wrote]
    /\ prevCall' = lastCall
    /\ callCount' = callCount + 1
    /\ UNCHANGED <<pc, callers, tags, nextID, collections, jsonOk, snapshot, syncVars, passVars,
                   titleVars, mergeVars, matchVars, storeVars>>

NextClient == ClientCreateTag \/ ClientAddMovie

SpecClient == InitClient /\ [][NextClient]_vars

(***************************************************************************)
(* C17.  Two calls of CreateTag in a row with the same label, neither      *)
(* returning an error, return the same id, and the service then holds      *)
(* exactly one tag with that label; a label that is there is never added   *)
(* again.                                                                  *)
(***************************************************************************)
TagCreationIdempotent ==
    /\ (/\ prevCall.op = "CreateTag" /\ lastCall.op = "CreateTag"
        /\ prevCall.label = lastCall.label
        /\ ~prevCall.err /\ ~lastCall.err) =>
           /\ prevCall.id = lastCall.id
           /\ ~lastCall.wrote
           /\ Cardinality({t \in tags : t.Label = lastCall.label}) = 1
    /\ (lastCall.op = "CreateTag" /\ lastCall.existed) =>
           ~lastCall.wrote /\ (lastCall.fate # "list" => ~lastCall.err)
    /\ \A t, u \in tags : t.Label = u.Label => t = u

TagCreationIdempotentWitness ==
    /\ prevCall.op = "CreateTag" /\ lastCall.op = "CreateTag"
    /\ prevCall.label = tagName("3") /\ lastCall.label = tagName("3")
    /\ prevCall.wrote /\ ~prevCall.err /\ ~lastCall.err
    /\ lastCall.id = prevCall.id
    /\ lastCall.id = 10

\* the number of places of a tag list that hold the tag id t
Occurrences(tagList, t) == Cardinality({i \in DOMAIN tagList : tagList[i] = t})

(***************************************************************************)
(* C18.  AddMovie for a movie that is there already, with no request       *)
(* failing, returns no error; the movie's tag list then begins with the    *)
(* list it had and holds every requested tag id; no id it had occurs more  *)
(* often than before; and if it had every requested tag id,                *)
(* UpdateMovieTags is not called and the list is unchanged.                *)
(***************************************************************************)
AddExistingEnsuresTags ==
    (lastCall.op = "AddMovie" /\ lastCall.existed) =>
        /\ lastCall.fate = "ok" =>
               /\ ~lastCall.err
               /\ movies[lastCall.tmdbID] = lastCall.now
               /\ SubSeq(lastCall.now, 1, Len(lastCall.had)) = lastCall.had
               /\ \A k \in DOMAIN lastCall.tagIDs :
                      \E n \in DOMAIN lastCall.now : lastCall.now[n] = lastCall.tagIDs[k]
               /\ \A k \in DOMAIN lastCall.had :
                      Occurrences(lastCall.now, lastCall.had[k]) =
                          Occurrences(lastCall.had, lastCall.had[k])
        /\ (/\ lastCall.fate \in {"ok", "update"}
            /\ \A k \in DOMAIN lastCall.tagIDs :
                   \E n \in DOMAIN lastCall.had : lastCall.had[n] = lastCall.tagIDs[k]) =>
               /\ ~lastCall.err
               /\ ~lastCall.wrote
               /\ lastCall.now = lastCall.had

AddExistingEnsuresTagsWitness ==
    /\ lastCall.op = "AddMovie" /\ lastCall.existed /\ lastCall.fate = "ok"
    /\ lastCall.had = <<1>>
    /\ lastCall.tagIDs = <<1, 2>>
    /\ lastCall.now = <<1, 2>>
    /\ lastCall.wrote /\ ~lastCall.err


\* the collections the sync pass has gone through so far
Passed == {existingCollections[i] : i \in 1..(idx - 1)}

\* the test that makes a collection a deletion candidate of the running pass
IsCandidate(c) ==
    /\ Len(c.Name) > 12 /\ HasPrefix(c.Name, "Metrograph: ")
    /\ c.Name \notin expectedNames

(***************************************************************************)
(* C19.  Deletions of the sync pass are independent and best-effort: once  *)
(* the loop has passed a deletion candidate its collection deletion was    *)
(* attempted and, if its subtype is "metrograph-" followed by something,   *)
(* its tag deletion too, whatever either call returned; the pass goes      *)
(* through every existing collection and ends in success, an error being   *)
(* returned only before the first deletion; nothing deleted comes back.    *)
(***************************************************************************)
DeletionsAreBestEffort ==
    /\ pc \in {"sync", "syncDone"} =>
           /\ idx \in 1..(Len(existingCollections) + 1)
           /\ \A c \in Passed :
                  IsCandidate(c) =>
                      /\ c \in deleteCollectionCalls
                      /\ (Len(c.Subtype) > 11 /\ HasPrefix(c.Subtype, "metrograph-")) =>
                             c.Subtype \in deleteTagCalls
           /\ \A i \in DOMAIN collections : collections[i] \in Existing
           /\ tags \subseteq SeriesTags
    /\ pc = "syncDone" => idx = Len(existingCollections) + 1
    /\ pc = "syncError" => deleteCollectionCalls = {} /\ deleteTagCalls = {}

\* a collection deletion failed, the tag of that collection was deleted all the
\* same, and a later candidate was deleted after it
DeletionsAreBestEffortWitness ==
    /\ pc = "syncDone"
    /\ \E i, j \in DOMAIN existingCollections :
          /\ i < j
          /\ existingCollections[i] \in deleteCollectionCalls
          /\ \E k \in DOMAIN collections : collections[k] = existingCollections[i]
          /\ existingCollections[i].Subtype \in deleteTagCalls
          /\ GetTagIDByName(tags, existingCollections[i].Subtype) = 0
          /\ existingCollections[j] \in deleteCollectionCalls
          /\ \A k \in DOMAIN collections : collections[k] # existingCollections[j]

(***************************************************************************)
(* C20.  When the sync pass has ended, the labels it asked the tagging     *)
(* service to delete are exactly the subtypes, beginning with              *)
(* "metrograph-" (the bare prefix included), of the collections it asked   *)
(* the collection service to delete.                                       *)
(***************************************************************************)
TagDeletedIffSubtypeOwned ==
    pc = "syncDone" =>
        deleteTagCalls =
            {c.Subtype : c \in {d \in deleteCollectionCalls :
                                    HasPrefix(d.Subtype, "metrograph-")}}


(***************************************************************************)
(* C21.  Collection creation skips a series that is represented downstream *)
(* by name: no create call carries the name of a collection that was there *)
(* before the creation passes, and no two downstream collections share a   *)
(* name.                                                                   *)
(***************************************************************************)
CreateSkipsRepresented ==
    /\ \A call \in createCollectionCalls :
           \A i \in DOMAIN collections :
               ~HasPrefix(collections[i].ID, "new") => collections[i].Name # call.Name
    /\ \A i, j \in DOMAIN collections :
           i # j => collections[i].Name # collections[j].Name


(***************************************************************************)
(* C22.  When CreateCollectionsFromJSON has ended without a failed call,   *)
(* it ended in success and, for every series of the snapshot, a tag with   *)
(* the label "metrograph-" + id exists (created if it was absent) and a    *)
(* collection create call was issued with that tag's id.                   *)
(***************************************************************************)
TagResolvedCreateIfAbsent ==
    (jsonOk /\ failures = 0 /\ pc \in {"createDone", "createError"}) =>
        /\ pc = "createDone"
        /\ \A id \in DOMAIN snapshot :
               \E t \in tags :
                   /\ t.Label = "metrograph-" \o id
                   /\ \E call \in createCollectionCalls :
                          call.Series = id /\ call.RadarrTagID = t.ID

(***************************************************************************)
(* C22 as the code has it.  CreateCollectionsFromJSON looks the tag up and *)
(* never creates it: every tag added to the service was asked for by       *)
(* ProcessJSONToRadarr; a series whose label "metrograph-" + id is absent  *)
(* gets no collection create call; and when the pass has ended in success  *)
(* without a failed call, every series has a create call that carries the  *)
(* id of the tag with its label.                                           *)
(***************************************************************************)
TagLookedUpNotCreated ==
    /\ \A t \in tags : t \notin SeriesTags => t.Label \in createTagCalls
    /\ \A id \in DOMAIN snapshot :
           (\A t \in tags : t.Label # "metrograph-" \o id) =>
               \A call \in createCollectionCalls : call.Series # id
    /\ \A call \in createCollectionCalls :
           \E t \in tags : t.Label = "metrograph-" \o call.Series /\ t.ID = call.RadarrTagID
    /\ (pc = "createDone" /\ failures = 0) =>
           \A id \in DOMAIN snapshot :
               \E call \in createCollectionCalls :
                   /\ call.Series = id
                   /\ \E t \in tags : t.Label = "metrograph-" \o id /\ t.ID = call.RadarrTagID

TagLookedUpNotCreatedWitness ==
    /\ pc = "createDone"
    /\ failures = 0
    /\ createTagCalls = {}
    /\ DOMAIN snapshot = {"1", "2"}
    /\ \E call \in createCollectionCalls : call.Series = "2" /\ call.RadarrTagID = 2
    /\ \E i \in DOMAIN collections :
           HasPrefix(collections[i].ID, "new") /\ collections[i].Subtype = "metrograph-2"


(***************************************************************************)
(* C23.  A failure on one item (resolving or creating a tag, creating a    *)
(* collection, adding a movie) is swallowed in every pass: a pass that has *)
(* loaded its snapshot never ends with an error, and a series whose tag    *)
(* could not be resolved is skipped while the loop goes on to the end.     *)
(***************************************************************************)
PerItemFailureSwallowed ==
    jsonOk =>
        /\ pc \notin {"processError", "createError"}
        /\ pc \in {"processDone", "createDone"} => todo = <<>>


(***************************************************************************)
(* C24.  When the existing collections cannot be enumerated at the start   *)
(* of the sync pass, the pass ends with the error and issues no            *)
(* DeleteCollection and no DeleteTag call; the loop over the collections   *)
(* is entered only with the list the service answered.                     *)
(***************************************************************************)
EnumerationFailureAbortsSync ==
    /\ pc = "syncError" =>
           /\ deleteCollectionCalls = {}
           /\ deleteTagCalls = {}
           /\ tags = SeriesTags
    /\ (pc = "sync" /\ idx = 1) => existingCollections = collections

\* the snapshot was loaded, the listing failed, and the service holds a stale
\* collection that a pass over an answered listing would have deleted
EnumerationFailureAbortsSyncWitness ==
    /\ pc = "syncError"
    /\ jsonOk
    /\ \E i \in DOMAIN collections :
           /\ HasPrefix(collections[i].Name, "Metrograph: ")
           /\ IsMetrographTag(collections[i].Subtype)
           /\ collections[i].Name \notin ExpectedNames(snapshot)


(***************************************************************************)
(* C26.  When the stored list colA holds no two films with the same title, *)
(* the merged list holds no two films with the same title, whatever the    *)
(* fresh list colB is, a colB that repeats a title absent from colA        *)
(* included.                                                               *)
(***************************************************************************)
MergeKeepsTitlesUnique ==
    (/\ pc = "merged"
     /\ \A i, j \in DOMAIN colA : i # j => colA[i].Title # colA[j].Title)
        => \A i, j \in DOMAIN results : i # j => results[i].Title # results[j].Title


(***************************************************************************)
(* C27.  The sync pass never issues DeleteTag for the label                *)
(* "metrograph-" + s of a series s that is still expected, and the tag of  *)
(* such a series stays in the service, also when a stale collection under  *)
(* an old name still carries that label as its subtype.                    *)
(***************************************************************************)
SyncKeepsExpectedTags ==
    pc \in {"sync", "syncDone"} =>
        \A id \in DOMAIN snapshot :
            collectionName(snapshot[id]) \in expectedNames =>
                /\ tagName(id) \notin deleteTagCalls
                /\ \E t \in tags : t.Label = tagName(id)


(***************************************************************************)
(* Run specification: one invocation of the program after another over one *)
(* file.  Either UpdateFileStore or the default write of main acts on a    *)
(* crawl result, or the commands on a snapshot follow one another: at most *)
(* one SyncCollectionsFromJSON first, then up to MaxRuns runs of           *)
(* ProcessJSONToRadarr and CreateCollectionsFromJSON.  The snapshots are   *)
(* those of Snapshots whose films are all resolved.                        *)
(***************************************************************************)
RunSnapshots ==
    {s \in Snapshots :
        \A id \in DOMAIN s : \A i \in DOMAIN s[id].Movies : s[id].Movies[i].TMDBID > 0}

RunCollections ==
    {<<>>, <<Candidate(1)>>, <<Candidate(4), Candidate(10)>>}

InitRun ==
    /\ pc = "idle"
    /\ jsonOk \in BOOLEAN
    /\ snapshot \in (IF jsonOk THEN RunSnapshots ELSE {NoSeries})
    /\ collections \in RunCollections
    /\ tags \in {{}, SeriesTags}
    /\ movies = NoSeries
    /\ nextID = 10
    /\ IdleSync
    /\ IdlePasses
    /\ IdleTitle
    /\ IdleMerge
    /\ IdleMatch
    /\ IdleClient
    /\ IdleStore

NextRun == NextStore \/ NextSync \/ NextCreate

SpecRun == (InitStore \/ InitRun) /\ [][NextRun]_vars

(***************************************************************************)
(* C25.  A load that fails ends the operation at once.  UpdateFileStore    *)
(* on a file that cannot be read or parsed returns its error without       *)
(* writing and leaves the catalog in memory as the crawl produced it;      *)
(* ProcessJSONToRadarr, SyncCollectionsFromJSON and                        *)
(* CreateCollectionsFromJSON on such a file end with the error before any  *)
(* call to a service.                                                      *)
(***************************************************************************)
LoadFailsFast ==
    /\ (~fileOk /\ pc \notin {"crawled", "written"}) =>
           /\ pc = "loadError"
           /\ ~wrote
           /\ written = NoSeries
           /\ scrappedData = crawled
    /\ ~jsonOk =>
           /\ pc \in {"idle", "processError", "createError", "syncError"}
           /\ todo = <<>>
           /\ createTagCalls = {}
           /\ addMovieCalls = {}
           /\ createCollectionCalls = {}
           /\ deleteCollectionCalls = {}
           /\ deleteTagCalls = {}
           /\ collections \in RunCollections
           /\ tags \in {{}, SeriesTags}
           /\ movies = NoSeries

\* UpdateFileStore has ended on an unreadable file with a crawl result that
\* holds a series the merge would have stored
LoadFailsFastWitness ==
    /\ pc = "loadError"
    /\ ~fileOk
    /\ ~wrote
    /\ filteredResults(crawled) # NoSeries


(***************************************************************************)
(* C28.  Convergence: after SyncCollectionsFromJSON followed by            *)
(* CreateCollectionsFromJSON on the same snapshot, every call having       *)
(* succeeded, the names of the downstream collections that start with      *)
(* "Metrograph: " are exactly expectedNames, each held by one collection,  *)
(* and the collections without the prefix are as they were.                *)
(***************************************************************************)
SyncThenCreateConverges ==
    (/\ pc = "createDone"
     /\ runs = 1
     /\ idx = Len(existingCollections) + 1
     /\ failures = 0
     /\ \A c \in deleteCollectionCalls : \A i \in DOMAIN collections : collections[i].ID # c.ID
     /\ \A label \in deleteTagCalls : \A t \in tags : t.Label # label)
        => /\ {collections[i].Name :
                  i \in {j \in DOMAIN collections : HasPrefix(collections[j].Name, "Metrograph: ")}}
              = expectedNames
           /\ \A i, j \in DOMAIN collections :
                  (i # j /\ HasPrefix(collections[i].Name, "Metrograph: "))
                      => collections[i].Name # collections[j].Name
           /\ SelectSeq(collections, LAMBDA c : ~HasPrefix(c.Name, "Metrograph: "))
              = SelectSeq(existingCollections, LAMBDA c : ~HasPrefix(c.Name, "Metrograph: "))


(***************************************************************************)
(* Race specification: MaxCallers runs call CreateTag against one tagging  *)
(* service at the same time.  A call is two requests, GetTags and then     *)
(* AddTag, and the requests of the runs interleave in any order.  The      *)
(* service is not part of the program: for a label it holds already it     *)
(* either stores a further tag or answers with the tag it has.             *)
(***************************************************************************)
Callers == 1..MaxCallers

RaceLabels == {tagName("1"), tagName("2")}

RaceTags == SUBSET (SeriesTags \cup {[ID |-> 3, Label |-> "other"]})

\* a check made against the tags of the service at the moment of the AddTag
TagsExaminedNow(listedTags, currentTags) == currentTags

\* the tags the loop of CreateTag looks through: the answer of its own GetTags
TagsExamined(listedTags, currentTags) == listedTags

InitRace ==
    /\ pc = "race"
    /\ callers \in [Callers -> {[pc |-> "start", label |-> l, seen |-> {}, id |-> 0,
                                 err |-> FALSE, added |-> FALSE] : l \in RaceLabels}]
    /\ tags \in RaceTags
    /\ nextID = 10
    /\ movies = NoSeries
    /\ collections = <<>>
    /\ jsonOk = TRUE
    /\ snapshot = NoSeries
    /\ callCount = 0 /\ prevCall = NoCall /\ lastCall = NoCall
    /\ IdleSync
    /\ IdlePasses
    /\ IdleTitle
    /\ IdleMerge
    /\ IdleMatch
    /\ IdleStore

\* GetTags of CreateTag and the loop over its answer
RaceGetTags(c) ==
    /\ pc = "race"
    /\ callers[c].pc = "start"
    /\ \E listed \in BOOLEAN :
          LET me == callers[c]
              found == GetTagIDByName(tags, me.label)
          IN  callers' = [callers EXCEPT ![c] =
                  IF ~listed THEN [me EXCEPT !.pc = "done", !.err = TRUE]
                  ELSE IF found # 0 THEN [me EXCEPT !.pc = "done", !.seen = tags, !.id = found]
                  ELSE [me EXCEPT !.pc = "listed", !.seen = tags]]
    /\ UNCHANGED <<pc, callCount, prevCall, lastCall, titleVars, mergeVars, matchVars,
                   storeVars, downVars>>

\* AddTag of CreateTag, sent because the label was not in the answer of GetTags
RaceAddTag(c) ==
    /\ pc = "race"
    /\ callers[c].pc = "listed"
    /\ \E fate \in {"ok", "add"}, stored \in BOOLEAN :
          LET me == callers[c]
              examined == TagsExamined(me.seen, tags)
              r == CreateTag(examined, me.label, fate, nextID)
              held == GetTagIDByName(tags, me.label)
          IN  IF r.err
              THEN /\ callers' = [callers EXCEPT ![c] =
                                     [me EXCEPT !.pc = "done", !.err = TRUE, !.added = TRUE]]
                   /\ UNCHANGED <<tags, nextID>>
              ELSE IF r.tags = examined
              THEN /\ callers' = [callers EXCEPT ![c] = [me EXCEPT !.pc = "done", !.id = r.id]]
                   /\ UNCHANGED <<tags, nextID>>
              ELSE IF stored \/ held = 0
              THEN /\ tags' = tags \cup {[ID |-> nextID, Label |-> me.label]}
                   /\ nextID' = nextID + 1
                   /\ callers' = [callers EXCEPT ![c] =
                                     [me EXCEPT !.pc = "done", !.id = nextID, !.added = TRUE]]
              ELSE /\ callers' = [callers EXCEPT ![c] =
                                     [me EXCEPT !.pc = "done", !.id = held, !.added = TRUE]]
                   /\ UNCHANGED <<tags, nextID>>
    /\ UNCHANGED <<pc, callCount, prevCall, lastCall, movies, collections, jsonOk, snapshot,
                   syncVars, passVars, titleVars, mergeVars, matchVars, storeVars>>

NextRace == \E c \in Callers : RaceGetTags(c) \/ RaceAddTag(c)

SpecRace == InitRace /\ [][NextRace]_vars

\* the tags of the service that carry the label
Labelled(label) == {t \in tags : t.Label = label}

(***************************************************************************)
(* C29.  The check and the creation of CreateTag are not atomic.  When two *)
(* runs call CreateTag with the same label at the same time and both list  *)
(* the tags before either creates, both send AddTag; each holds the id the *)
(* service answered with, and when the service stored both tags it holds   *)
(* two tags of that label and the two callers hold different ids.          *)
(***************************************************************************)
CreateTagRaces ==
    \A a, b \in Callers :
        (/\ a # b
         /\ callers[a].label = callers[b].label
         /\ callers[a].pc = "done" /\ callers[b].pc = "done"
         /\ ~callers[a].err /\ ~callers[b].err
         /\ \A t \in callers[a].seen \cup callers[b].seen : t.Label # callers[a].label)
            => /\ callers[a].added /\ callers[b].added
               /\ {callers[a].id, callers[b].id} \subseteq
                      {t.ID : t \in Labelled(callers[a].label)}
               /\ callers[a].id # callers[b].id => Cardinality(Labelled(callers[a].label)) >= 2

\* both runs listed before either created, both created, and the service holds
\* two tags of the label under the two ids the callers hold
CreateTagRacesWitness ==
    /\ pc = "race"
    /\ callers[1].label = callers[2].label
    /\ callers[1].pc = "done" /\ callers[2].pc = "done"
    /\ ~callers[1].err /\ ~callers[2].err
    /\ \A t \in callers[1].seen \cup callers[2].seen : t.Label # callers[1].label
    /\ callers[1].added /\ callers[2].added
    /\ callers[1].id # callers[2].id
    /\ Labelled(callers[1].label) =
           {[ID |-> callers[1].id, Label |-> callers[1].label],
            [ID |-> callers[2].id, Label |-> callers[1].label]}

====
